---- MODULE Spec2Model ----
(***************************************************************************)
(* Model of the tetris-challenge batch simulator (src/main.py).            *)
(*                                                                         *)
(* The driver run_process reads stdin line by line; for every line it      *)
(* builds a fresh Tetris(10, 100), parses the line into symbol pairs and   *)
(* feeds them one by one to update_grid_per_shape, then prints the height  *)
(* of the remaining blocks.  Text is modelled as sequences of one-character*)
(* strings; the grid is modelled as Python holds it: a list of references  *)
(* to row objects (grid) and the row objects themselves (heap), so that    *)
(* the reference copy of the row shift is visible.                         *)
(***************************************************************************)
EXTENDS Integers, Sequences, FiniteSets, TLC

\* ------------------------------------------------------------------------
\* Program constants
\* ------------------------------------------------------------------------

\* Tetris(10, 100): the width and the height the driver passes
W == 10
H == 100

\* y_offset = 5: the fixed vertical offset the drop search starts from
START_Y == 5

\* the shape catalog; array[1] is the lowest row of the shape (r = 0)
SIZE_MAP ==
  [ Q |-> [h |-> 2, w |-> 2, array |-> << <<"q","q">>, <<"q","q">> >>],
    Z |-> [h |-> 2, w |-> 3, array |-> << <<".","z","z">>, <<"z","z",".">> >>],
    S |-> [h |-> 2, w |-> 3, array |-> << <<"s","s",".">>, <<".","s","s">> >>],
    T |-> [h |-> 2, w |-> 3, array |-> << <<".","t",".">>, <<"t","t","t">> >>],
    I |-> [h |-> 1, w |-> 4, array |-> << <<"i","i","i","i">> >>],
    L |-> [h |-> 4, w |-> 2,
           array |-> << <<"l","l">>, <<"l",".">>, <<"l",".">>, <<"l",".">> >>],
    J |-> [h |-> 4, w |-> 2,
           array |-> << <<"j","j">>, <<".","j">>, <<".","j">>, <<".","j">> >>] ]

ShapeNames == DOMAIN SIZE_MAP

list_of_available_symbols == {"q", "z", "s", "t", "i", "l", "j"}

\* the row every grid row is initialised from, and the row that
\* height_of_remaining_blocks compares against: ten empty cells
zero_list == <<".", ".", ".", ".", ".", ".", ".", ".", ".", ".">>

\* ------------------------------------------------------------------------
\* Text: str.strip, str.split(','), int()
\* ------------------------------------------------------------------------

Whitespace == {" ", "\n", "\t", "\r"}

RECURSIVE LStrip(_)
LStrip(s) ==
  IF s # <<>> /\ Head(s) \in Whitespace THEN LStrip(Tail(s)) ELSE s

RECURSIVE RStrip(_)
RStrip(s) ==
  IF s # <<>> /\ s[Len(s)] \in Whitespace
  THEN RStrip(SubSeq(s, 1, Len(s) - 1))
  ELSE s

Strip(s) == RStrip(LStrip(s))

\* the comma of s[lo..hi] nearest to position mid, looked for d and more
\* positions away from it; 0 when s[lo..hi] holds none
RECURSIVE CommaNear(_, _, _, _, _)
CommaNear(s, lo, hi, mid, d) ==
  IF lo > hi \/ (mid - d < lo /\ mid + d > hi) THEN 0
  ELSE IF mid - d >= lo /\ s[mid - d] = "," THEN mid - d
  ELSE IF mid + d <= hi /\ s[mid + d] = "," THEN mid + d
  ELSE CommaNear(s, lo, hi, mid, d + 1)

\* s.split(',') of s[lo..hi]: the fields between the commas, in order;
\* never an empty list (the empty string splits into one empty field).
\* The text is cut at a comma near its middle, so that a long line does
\* not nest deeply.
RECURSIVE SplitFrom(_, _, _)
SplitFrom(s, lo, hi) ==
  LET k == CommaNear(s, lo, hi, (lo + hi) \div 2, 0)
  IN  IF k = 0 THEN <<SubSeq(s, lo, hi)>>
      ELSE SplitFrom(s, lo, k - 1) \o SplitFrom(s, k + 1, hi)

Split(s) == SplitFrom(s, 1, Len(s))

parse_line_to_array(line) == Split(Strip(line))

DigitChars == <<"0", "1", "2", "3", "4", "5", "6", "7", "8", "9">>

IsDigit(ch) == \E d \in 1..10 : DigitChars[d] = ch

\* int(ch) of a one-character string that is a base-10 digit
IntOf(ch) == (CHOOSE d \in 1..10 : DigitChars[d] = ch) - 1

\* ------------------------------------------------------------------------
\* The grid
\* ------------------------------------------------------------------------

\* initialise_grid: height rows, each a fresh copy of zero_list;
\* row index i refers to row object i
InitialGrid == [i \in 0..(H - 1) |-> i]
InitialHeap == [o \in 0..(H - 1) |-> zero_list]

\* the grid as the program reads it: self._get_current_grid()[y][x]
Cell(g, hp, y, x) == hp[g[y]][x + 1]
Row(g, hp, y) == hp[g[y]]

\* _detected_collision, from the k-th box of the shape in row-major order.
\* "True"/"False" are its return values; "IndexError" is the exception the
\* read of grid[y][x] raises outside the grid.
RECURSIVE CollisionScan(_, _, _, _, _, _)
CollisionScan(g, hp, shape, x_offset, y_offset, k) ==
  LET w == Len(shape[1])
      r == k \div w
      c == k % w
      y == y_offset + r
      x == x_offset + c
  IN  IF k >= Len(shape) * w THEN "False"
      ELSE IF y < 0 THEN "True"
      ELSE IF shape[r + 1][c + 1] # "."
        THEN IF y >= H \/ x >= W THEN "IndexError"
             ELSE IF Cell(g, hp, y, x) # "." THEN "True"
             ELSE CollisionScan(g, hp, shape, x_offset, y_offset, k + 1)
        ELSE CollisionScan(g, hp, shape, x_offset, y_offset, k + 1)

\* a collision test that forgets the occupied cells and knows the floor only
detected_collision_floor_only(g, hp, shape, x_offset, y_offset) ==
  IF y_offset < 0 THEN "True" ELSE "False"

\* a collision test that looks at the lowest row of the shape only
detected_collision_lowest_row(g, hp, shape, x_offset, y_offset) ==
  CollisionScan(g, hp, <<shape[1]>>, x_offset, y_offset, 0)

detected_collision(g, hp, shape, x_offset, y_offset) ==
  CollisionScan(g, hp, shape, x_offset, y_offset, 0)

\* the while loop of _check_where_to_place_incoming_shape: decrement
\* y_offset as long as there is no collision
RECURSIVE SearchDown(_, _, _, _, _)
SearchDown(g, hp, shape, x_offset, y_offset) ==
  LET is_collision == detected_collision(g, hp, shape, x_offset, y_offset)
  IN  IF is_collision = "False"
      THEN SearchDown(g, hp, shape, x_offset, y_offset - 1)
      ELSE [is_collision |-> is_collision, y_offset |-> y_offset]

\* a drop search that steps back up two rows instead of one
FindYOffset_up_two(g, hp, shape, x_offset) ==
  LET s == SearchDown(g, hp, shape, x_offset, START_Y)
  IN  IF s.is_collision = "IndexError"
      THEN [exc |-> "IndexError", y_offset |-> s.y_offset]
      ELSE [exc |-> "none", y_offset |-> s.y_offset + 2]

\* y_offset = 5; search; y_offset += 1
FindYOffset(g, hp, shape, x_offset) ==
  LET s == SearchDown(g, hp, shape, x_offset, START_Y)
  IN  IF s.is_collision = "IndexError"
      THEN [exc |-> "IndexError", y_offset |-> s.y_offset]
      ELSE [exc |-> "none", y_offset |-> s.y_offset + 1]

\* the nested loops that place the shape: box after box in row-major
\* order; a write outside the grid raises IndexError and keeps the boxes
\* already written
RECURSIVE PlaceFrom(_, _, _, _, _, _)
PlaceFrom(g, hp, shape, x_offset, y_offset, k) ==
  LET w == Len(shape[1])
      r == k \div w
      c == k % w
      y == y_offset + r
      x == x_offset + c
      box == shape[r + 1][c + 1]
  IN  IF k >= Len(shape) * w THEN [exc |-> "none", heap |-> hp]
      ELSE IF box # "."
        THEN IF y >= H \/ x >= W THEN [exc |-> "IndexError", heap |-> hp]
             ELSE PlaceFrom(g, [hp EXCEPT ![g[y]][x + 1] = box],
                            shape, x_offset, y_offset, k + 1)
        ELSE PlaceFrom(g, hp, shape, x_offset, y_offset, k + 1)

PlaceShape(g, hp, shape, x_offset, y_offset) ==
  PlaceFrom(g, hp, shape, x_offset, y_offset, 0)

\* '.' not in row
IsFullRow(row) == \A x \in 1..Len(row) : row[x] # "."

\* a scan for full rows that starts at row 1 and never looks at the floor
full_row_exists_from_one(g, hp) ==
  IF \E h_idx \in 1..(H - 1) : IsFullRow(Row(g, hp, h_idx))
  THEN CHOOSE h_idx \in 1..(H - 1) :
         /\ IsFullRow(Row(g, hp, h_idx))
         /\ \A j \in 1..(h_idx - 1) : ~IsFullRow(Row(g, hp, j))
  ELSE -1

\* full_row_exists: the lowest full row, or None (-1 here)
full_row_exists(g, hp) ==
  IF \E h_idx \in 0..(H - 1) : IsFullRow(Row(g, hp, h_idx))
  THEN CHOOSE h_idx \in 0..(H - 1) :
         /\ IsFullRow(Row(g, hp, h_idx))
         /\ \A j \in 0..(h_idx - 1) : ~IsFullRow(Row(g, hp, j))
  ELSE -1

\* a shift that deletes the full row from the list and appends nothing, so
\* that the grid is one row shorter
ShiftDown_drops_top(g, h_idx) ==
  [i \in 0..(H - 2) |-> IF h_idx <= i THEN g[i + 1] ELSE g[i]]

\* for i in range(h_idx, height - 1): grid[i] = grid[i + 1]
\* the references are copied; the top index keeps its reference
ShiftDown(g, h_idx) ==
  [i \in 0..(H - 1) |-> IF h_idx <= i /\ i < H - 1 THEN g[i + 1] ELSE g[i]]

\* one turn of the while loop of _clear_row_or_not: with a full row at
\* h_idx, count it and shift the rows above it down
ClearRow(g, deletions, h_idx) ==
  [grid |-> ShiftDown(g, h_idx), row_deletions |-> deletions + 1]

\* _clear_row_or_not as a whole: turn after turn until no row is full
RECURSIVE clear_row_or_not(_, _, _)
clear_row_or_not(g, hp, deletions) ==
  LET h_idx == full_row_exists(g, hp)
  IN  IF h_idx = -1 THEN [grid |-> g, row_deletions |-> deletions]
      ELSE LET c == ClearRow(g, deletions, h_idx)
           IN  clear_row_or_not(c.grid, hp, c.row_deletions)

\* height_of_remaining_blocks: rows from the floor up to the first row
\* equal to ten empty cells.  From row i on, the loop stops at the first
\* such row, or after row H - 1; the count is the number of rows it passed.
CountRows(g, hp, i) ==
  LET stop == CHOOSE n \in i..H :
                /\ n = H \/ Row(g, hp, n) = zero_list
                /\ \A j \in i..(n - 1) : Row(g, hp, j) # zero_list
  IN  stop - i

\* a height count that decrements its counter
height_counting_down(g, hp) == 0 - CountRows(g, hp, 0)

\* a height count whose counter starts at one
height_from_one(g, hp) == 1 + CountRows(g, hp, 0)

height_of_remaining_blocks(g, hp) == CountRows(g, hp, 0)

\* update_grid_per_shape for every pair of a line, one after the other, and
\* the height at the end: what run_process prints for the pairs on the
\* Tetris (g, hp), or -1 when a pair raises
RECURSIVE RunPairs(_, _, _)
RunPairs(g, hp, pairs) ==
  IF pairs = <<>> THEN height_of_remaining_blocks(g, hp)
  ELSE LET symbol_pair == Head(pairs)
       IN  IF Len(symbol_pair) < 2 \/ symbol_pair[1] \notin DOMAIN SIZE_MAP
              \/ ~IsDigit(symbol_pair[2])
           THEN -1
           ELSE LET shape == SIZE_MAP[symbol_pair[1]].array
                    x == IntOf(symbol_pair[2])
                    f == FindYOffset(g, hp, shape, x)
                    p == PlaceShape(g, hp, shape, x, f.y_offset)
                IN  IF f.exc # "none" THEN -1
                    ELSE IF p.exc # "none" THEN -1
                    ELSE RunPairs(clear_row_or_not(g, p.heap, 0).grid, p.heap,
                                  Tail(pairs))

\* ------------------------------------------------------------------------
\* Input: the lines the driver is fed
\* ------------------------------------------------------------------------

\* at most MaxLines lines on stdin
MaxLines == 2
\* a free line is a stack-building prefix followed by at most MaxFree
\* symbol pairs, the first of them arbitrary
MaxFree == 1

Pair(name, x) == <<name, DigitChars[x + 1]>>

\* every catalog shape at every one-digit offset (in bounds or not)
CatalogPairs == {Pair(name, x) : name \in ShapeNames, x \in 0..9}

\* every catalog shape at the left wall and two columns from the right
\* wall, where the wide shapes do not fit
LaterPairs == {Pair(name, x) : name \in ShapeNames, x \in {0, 8}}

\* pairs the driver cannot interpret: no character at all, no offset
\* character, an offset that is no digit, a name outside the catalog
BadPairs == {<<>>, <<"Q">>, <<"Q", "a">>, <<"X", "0">>}

RECURSIVE PairSeqs(_, _)
PairSeqs(pairs, n) ==
  IF n = 0 THEN {<<>>}
  ELSE LET shorter == PairSeqs(pairs, n - 1)
       IN  shorter \cup {Append(ps, p) : ps \in shorter, p \in pairs}

\* stacks to continue from: nothing, a tall column on the left and on the
\* right, two rows one block short of full, a floor row one block short of
\* full under material
Prefixes ==
  { <<>>,
    <<Pair("L", 0), Pair("L", 0)>>,
    <<Pair("L", 8), Pair("J", 8)>>,
    <<Pair("Q", 0), Pair("Q", 2), Pair("Q", 4), Pair("Q", 6)>>,
    <<Pair("I", 0), Pair("I", 4), Pair("T", 1)>> }

\* the pairs, comma separated (joined half by half)
RECURSIVE Join(_)
Join(ps) ==
  IF ps = <<>> THEN <<>>
  ELSE IF Len(ps) = 1 THEN ps[1]
  ELSE LET m == Len(ps) \div 2
       IN  Join(SubSeq(ps, 1, m)) \o <<",">> \o Join(SubSeq(ps, m + 1, Len(ps)))

\* the text of a line: the pairs, comma separated, and the newline
LineOf(ps) == Join(ps) \o <<"\n">>

\* what follows the prefix of a free line: nothing, or any catalog pair
\* and after it fewer than MaxFree pairs at the two chosen offsets
FreeTails ==
  {<<>>} \cup {<<p>> \o later : p \in CatalogPairs,
                                later \in PairSeqs(LaterPairs, MaxFree - 1)}

FreeLines == {LineOf(p \o f) : p \in Prefixes, f \in FreeTails}

\* lines with a pair the driver cannot interpret, blank lines, and a line
\* padded with spaces
OddLines ==
  {LineOf(<<Pair("Q", 0), b>>) : b \in BadPairs}
    \cup {<<"\n">>, <<" ", "\n">>, <<" ">> \o LineOf(<<Pair("Q", 0)>>)}

\* the runs the specification names, an out-of-bounds run and a run that
\* stacks past the start of the drop search
NamedLines ==
  { LineOf(<<Pair("Q", 0)>>),
    LineOf(<<Pair("Q", 0), Pair("Q", 0)>>),
    LineOf(<<Pair("Q", 0), Pair("Q", 2), Pair("Q", 4), Pair("Q", 6), Pair("Q", 8)>>),
    LineOf(<<Pair("I", 8)>>),
    LineOf(<<Pair("L", 0), Pair("L", 0), Pair("Q", 0)>>) }

ShortLines == NamedLines \cup OddLines

\* a long line: DeepRounds times the five blocks that fill and clear two
\* rows, so that the cascade runs about a hundred times in one run
DeepRounds == 50

FiveQ == <<Pair("Q", 0), Pair("Q", 2), Pair("Q", 4), Pair("Q", 6), Pair("Q", 8)>>

\* the sequence ps, n times over
Repeat(ps, n) == [k \in 1..(n * Len(ps)) |-> ps[((k - 1) % Len(ps)) + 1]]

DeepLines == {LineOf(Repeat(FiveQ, DeepRounds))}

\* the turns of the cascade loop the model follows in one run; the loop
\* itself has no such limit, and counts on for ever once a turn leaves
\* the full row where it is
MaxDeletions == 102

\* the lines stdin may hold: an input of one line holds any free, short or
\* deep line, an input of several lines holds short lines
LinesAt(index, left) ==
  IF index = 0 /\ left = 1
  THEN FreeLines \cup ShortLines \cup DeepLines
  ELSE ShortLines

\* ------------------------------------------------------------------------
\* State
\* ------------------------------------------------------------------------

VARIABLES
  unread,            \* number of lines of stdin not read yet
  i,                 \* index of the line being processed (-1: none yet)
  line,              \* the text of that line
  pc,                \* where run_process is
  input_line_array,  \* the symbol pairs of the line not yet taken
  grid,              \* tetris._grid: row index -> row object
  heap,              \* row object -> its ten cells
  row_deletions,     \* tetris._row_deletions
  shape_name,        \* the name of the pair being placed
  x_offset,          \* its horizontal offset
  y_offset,          \* the vertical offset the drop search resolved
  output,            \* the integers printed so far
  exc                \* the uncaught exception that ended the process

vars == <<unread, i, line, pc, input_line_array, grid, heap, row_deletions,
          shape_name, x_offset, y_offset, output, exc>>

tetris == <<grid, heap, row_deletions>>
locals == <<shape_name, x_offset, y_offset>>

Init ==
  /\ unread \in 0..MaxLines
  /\ i = -1
  /\ line = <<>>
  /\ pc = "read"
  /\ input_line_array = <<>>
  /\ grid = InitialGrid
  /\ heap = InitialHeap
  /\ row_deletions = 0
  /\ shape_name = "none"
  /\ x_offset = 0
  /\ y_offset = 0
  /\ output = <<>>
  /\ exc = "none"

\* an uncaught exception ends the process: nothing runs afterwards
Raise(e) ==
  /\ pc' = "crashed"
  /\ exc' = e

\* a driver that builds the Tetris once and keeps it from line to line
ReadLine_keeps_tetris ==
  /\ pc = "read"
  /\ unread > 0
  /\ \E text \in LinesAt(i + 1, unread) :
       /\ line' = text
       /\ input_line_array' = parse_line_to_array(text)
  /\ i' = i + 1
  /\ unread' = unread - 1
  /\ pc' = "pair"
  /\ UNCHANGED <<tetris, locals, output, exc>>

\* for i, line in enumerate(sys.stdin): tetris = Tetris(10, 100);
\* input_line_array = tetris.parse_line_to_array(line)
ReadLine ==
  /\ pc = "read"
  /\ unread > 0
  /\ \E text \in LinesAt(i + 1, unread) :
       /\ line' = text
       /\ input_line_array' = parse_line_to_array(text)
  /\ i' = i + 1
  /\ unread' = unread - 1
  /\ grid' = InitialGrid
  /\ heap' = InitialHeap
  /\ row_deletions' = 0
  /\ pc' = "pair"
  /\ UNCHANGED <<locals, output, exc>>

\* stdin is exhausted: the loop and the process end
EndOfInput ==
  /\ pc = "read"
  /\ unread = 0
  /\ pc' = "exit"
  /\ UNCHANGED <<unread, i, line, input_line_array, tetris, locals, output, exc>>

\* the exception, if any, of
\*   shape_name, shape_origin_x = symbol_pair[0], int(symbol_pair[1])
\*   shape_array = SIZE_MAP[shape_name]["array"]
PairError(symbol_pair) ==
  IF Len(symbol_pair) < 2 THEN "IndexError"
  ELSE IF ~IsDigit(symbol_pair[2]) THEN "ValueError"
  ELSE IF symbol_pair[1] \notin ShapeNames THEN "KeyError"
  ELSE "none"

\* for symbol_pair in input_line_array: take the next pair and look the
\* shape up
NextPair ==
  /\ pc = "pair"
  /\ input_line_array # <<>>
  /\ LET symbol_pair == Head(input_line_array)
         e == PairError(symbol_pair)
     IN  /\ input_line_array' = Tail(input_line_array)
         /\ IF e # "none"
            THEN /\ Raise(e)
                 /\ UNCHANGED locals
            ELSE /\ shape_name' = symbol_pair[1]
                 /\ x_offset' = IntOf(symbol_pair[2])
                 /\ pc' = "drop"
                 /\ UNCHANGED <<y_offset, exc>>
  /\ UNCHANGED <<unread, i, line, tetris, output>>

shape_array == SIZE_MAP[shape_name].array

\* _check_where_to_place_incoming_shape, first half: the drop search
Drop ==
  /\ pc = "drop"
  /\ LET f == FindYOffset(grid, heap, shape_array, x_offset)
     IN  /\ y_offset' = f.y_offset
         /\ IF f.exc # "none"
            THEN Raise(f.exc)
            ELSE pc' = "write" /\ UNCHANGED exc
  /\ UNCHANGED <<unread, i, line, input_line_array, tetris, shape_name, x_offset,
                 output>>

\* _check_where_to_place_incoming_shape, second half: the shape is written
Write ==
  /\ pc = "write"
  /\ LET p == PlaceShape(grid, heap, shape_array, x_offset, y_offset)
     IN  /\ heap' = p.heap
         /\ IF p.exc # "none"
            THEN Raise(p.exc)
            ELSE pc' = "clear" /\ UNCHANGED exc
  /\ UNCHANGED <<unread, i, line, input_line_array, grid, row_deletions, locals,
                 output>>

\* _clear_row_or_not, one turn of its loop: delete the lowest full row, or
\* return when there is none.  The shift copies references and leaves the
\* top index as it is, so after n turns the top n + 1 indices refer to one
\* row object.
ClearStep ==
  /\ pc = "clear"
  /\ row_deletions < MaxDeletions
  /\ LET h_idx == full_row_exists(grid, heap)
     IN  IF h_idx # -1
         THEN /\ row_deletions' = ClearRow(grid, row_deletions, h_idx).row_deletions
              /\ grid' = ClearRow(grid, row_deletions, h_idx).grid
              /\ UNCHANGED pc
         ELSE /\ pc' = "pair"
              /\ UNCHANGED <<grid, row_deletions>>
  /\ UNCHANGED <<unread, i, line, input_line_array, heap, locals, output, exc>>

\* output = tetris.height_of_remaining_blocks(); print(output)
FinishLine ==
  /\ pc = "pair"
  /\ input_line_array = <<>>
  /\ output' = Append(output, height_of_remaining_blocks(grid, heap))
  /\ pc' = "read"
  /\ UNCHANGED <<unread, i, line, input_line_array, tetris, locals, exc>>

Next ==
  \/ ReadLine
  \/ EndOfInput
  \/ NextPair
  \/ Drop
  \/ Write
  \/ ClearStep
  \/ FinishLine

Spec == Init /\ [][Next]_vars

\* ------------------------------------------------------------------------
\* Properties
\* ------------------------------------------------------------------------

\* the run's grid holds the result of completed placements only: the driver
\* is between two pairs, or has printed the height of the line
PlacementDone == i >= 0 /\ pc \in {"pair", "read", "exit"}

\* the height of the current line has been printed
LineDone == i >= 0 /\ pc \in {"read", "exit"}

LastOutput == output[Len(output)]

\* the pair being placed is a catalog shape that fits between the walls
InBounds == shape_name \in ShapeNames /\ x_offset + SIZE_MAP[shape_name].w <= W
OutOfBounds == shape_name \in ShapeNames /\ x_offset + SIZE_MAP[shape_name].w > W

\* a row of W cells with no occupied cell
RowIsEmpty(y) == Row(grid, heap, y) = zero_list

Height == height_of_remaining_blocks(grid, heap)

\* the highest row with an occupied cell at or below y, -1 when there is none
HighestOccupiedFrom(y) ==
  IF \A j \in 0..y : RowIsEmpty(j) THEN -1
  ELSE CHOOSE n \in 0..y :
         /\ ~RowIsEmpty(n)
         /\ \A j \in (n + 1)..y : RowIsEmpty(j)

\* the occupied boxes of the shape being placed, as (r, c) pairs
ShapeBoxes ==
  {rc \in (0..(Len(shape_array) - 1)) \X (0..(Len(shape_array[1]) - 1)) :
     shape_array[rc[1] + 1][rc[2] + 1] # "."}

LineQ0 == LineOf(<<Pair("Q", 0)>>)
LineQ0Q0 == LineOf(<<Pair("Q", 0), Pair("Q", 0)>>)
LineFiveQ ==
  LineOf(<<Pair("Q", 0), Pair("Q", 2), Pair("Q", 4), Pair("Q", 6), Pair("Q", 8)>>)

\* C1: after every completed placement no row of the grid is full, and
\* running the clear scan again finds no full row and changes neither the
\* grid nor the rows-cleared counter.
C1_NoFullRowAfterPlacement ==
  PlacementDone =>
    /\ \A y \in 0..(H - 1) : ~IsFullRow(Row(grid, heap, y))
    /\ clear_row_or_not(grid, heap, row_deletions)
         = [grid |-> grid, row_deletions |-> row_deletions]

\* a placement has completed whose cascade cleared a row and left material
C1_Witness ==
  /\ pc = "pair"
  /\ InBounds
  /\ row_deletions = 1
  /\ Height > 0

\* C2: the offset y at which the shape is about to be written does not
\* collide on the grid as it is before the write, and y - 1 collides.
C2_RestingOffset ==
  (pc = "write" /\ InBounds) =>
    /\ detected_collision(grid, heap, shape_array, x_offset, y_offset) = "False"
    /\ detected_collision(grid, heap, shape_array, x_offset, y_offset - 1) = "True"

\* C3: every grid cell the placement is about to write a shape tag into is
\* empty immediately before the write.
C3_WritesOnlyEmptyCells ==
  (pc = "write" /\ InBounds) =>
    \A rc \in ShapeBoxes :
      Cell(grid, heap, y_offset + rc[1], x_offset + rc[2]) = "."

\* C4: after a completed placement no entirely empty row has a non-empty
\* row above it (stated on neighbouring rows, which is the same), and the
\* height is one plus the index of the highest occupied row, 0 for an
\* empty grid.
C4_NoFloatingRows ==
  PlacementDone =>
    /\ \A y \in 0..(H - 2) : RowIsEmpty(y) => RowIsEmpty(y + 1)
    /\ Height = HighestOccupiedFrom(H - 1) + 1

\* a placement has completed above the start of the drop search
C4_Witness ==
  /\ pc = "pair"
  /\ InBounds
  /\ y_offset = START_Y + 1
  /\ Height = 10

\* C5: a placement whose offset plus width exceeds the grid width never
\* gets past the taking of the pair: it writes no cell, it never succeeds
\* and no height is printed for its line.
C5_OutOfBoundsRejected ==
  [][(pc \in {"drop", "write"} /\ OutOfBounds) =>
       /\ grid' = grid
       /\ heap' = heap
       /\ output' = output
       /\ pc' # "clear"]_vars

\* C6: a line that fails on an unknown shape or on an out-of-bounds
\* placement does not keep the driver from the lines after it: the driver
\* is never stopped by such an error while lines are unread.
C6_PerLineIsolation ==
  ~(/\ pc = "crashed"
    /\ unread > 0
    /\ exc = "KeyError" \/ (exc = "IndexError" /\ OutOfBounds))

\* C7: an empty line (nothing but white space) is a run of zero placements
\* and prints 0.
C7_EmptyLinePrintsZero ==
  (i >= 0 /\ Strip(line) = <<>> /\ pc # "pair") =>
    /\ pc # "crashed"
    /\ Len(output) > 0
    /\ LastOutput = 0
    /\ heap = InitialHeap

\* C8: the run Q0 prints 2 and clears no row; the run Q0,Q0 prints 4, its
\* second block lies in rows 2-3 of columns 0-1 on top of the first, and
\* no row is cleared.
C8_StackedBlocks ==
  LineDone =>
    /\ line = LineQ0 =>
         /\ LastOutput = 2
         /\ row_deletions = 0
    /\ line = LineQ0Q0 =>
         /\ LastOutput = 4
         /\ row_deletions = 0
         /\ y_offset = 2
         /\ \A y \in 0..3 : \A x \in 0..1 : Cell(grid, heap, y, x) = "q"

\* the run Q0,Q0 has printed its height
C8_Witness ==
  /\ LineDone
  /\ line = LineQ0Q0
  /\ LastOutput = 4

\* C9: in the run Q0,Q2,Q4,Q6,Q8 the fifth block fills rows 0 and 1, the
\* cascade clears both (the counter ends at 2), the grid ends empty and
\* the run prints 0.
C9_FiveBlocksClear ==
  line = LineFiveQ =>
    /\ (pc = "clear" /\ input_line_array = <<>> /\ row_deletions = 0) =>
         /\ IsFullRow(Row(grid, heap, 0))
         /\ IsFullRow(Row(grid, heap, 1))
    /\ (pc = "pair" /\ input_line_array # <<>>) => row_deletions = 0
    /\ (pc = "pair" /\ input_line_array = <<>>) => row_deletions = 2
    /\ LineDone =>
         /\ row_deletions = 2
         /\ \A y \in 0..(H - 1) : RowIsEmpty(y)
         /\ LastOutput = 0

\* the run Q0,Q2,Q4,Q6,Q8 has printed its height
C9_Witness ==
  /\ LineDone
  /\ line = LineFiveQ
  /\ row_deletions = 2
  /\ Len(output) = i + 1

\* C10: in every reachable state the height is at least 0 and at most H.
C10_HeightWithinGrid ==
  /\ Height >= 0
  /\ Height <= H

\* a run has printed the height of a stack that is eight rows high
C10_Witness ==
  /\ LineDone
  /\ Len(output) = i + 1
  /\ LastOutput = 8
  /\ Height = 8

\* the line has just been read: none of its pairs is taken yet
JustRead == pc = "pair" /\ input_line_array = parse_line_to_array(line)

\* C11: every line starts on a fresh, empty grid with a zero clear counter,
\* and the height printed for a line is the height of a run of that line
\* alone on a fresh grid, whatever lines came before it.
C11_LineIndependence ==
  /\ JustRead =>
       /\ grid = InitialGrid
       /\ heap = InitialHeap
       /\ row_deletions = 0
  /\ (LineDone /\ Len(output) = i + 1) =>
       LastOutput = RunPairs(InitialGrid, InitialHeap, parse_line_to_array(line))

\* a second line has printed a height other than that of the line before
\* it, which left blocks in its grid
C11_Witness ==
  /\ LineDone
  /\ i = 1
  /\ Len(output) = 2
  /\ output[1] > 0
  /\ output[2] > 0
  /\ output[1] # output[2]

\* a turn of the cascade loop that found a full row and stays in the loop
CascadeTurn == pc = "clear" /\ pc' = "clear"

\* C12: every placement terminates: the drop search ends, and the cascade
\* ends with no full row left.  The loop condition of the cascade reads the
\* grid only, so a turn that deletes a full row and leaves every row index
\* with the content it had would repeat for ever: no turn does that.
C12_CascadeTerminates ==
  [][CascadeTurn =>
       \E y \in 0..(H - 1) : Row(grid', heap', y) # Row(grid, heap, y)]_vars

\* C13: the drop search begins at or above the highest occupied row of the
\* grid, and the first collision test of every in-bounds placement, the one
\* at the starting offset, returns false.
C13_SearchStartsAboveStack ==
  (pc = "drop" /\ InBounds) =>
    /\ START_Y >= HighestOccupiedFrom(H - 1)
    /\ detected_collision(grid, heap, shape_array, x_offset, START_Y) = "False"

\* C14: the offset at which an in-bounds shape is about to be written is
\* the first contact of a fall from above the stack: on the grid as it is
\* before the write the shape collides at no offset from there up to H - h.
C14_FirstContact ==
  (pc = "write" /\ InBounds) =>
    \A y \in y_offset..(H - SIZE_MAP[shape_name].h) :
      detected_collision(grid, heap, shape_array, x_offset, y) = "False"

\* C15: one turn of the cascade on the lowest full row, at index h_idx,
\* leaves the rows below h_idx as they were, gives every row from h_idx to
\* H - 2 the former content of the row above it, leaves the top row H - 1
\* all empty and adds exactly one to the rows-cleared counter; and while a
\* line is processed the counter never decreases.
C15_ClearStepEffect ==
  [][/\ CascadeTurn =>
          LET h_idx == full_row_exists(grid, heap)
          IN  /\ \A j \in 0..(h_idx - 1) :
                   Row(grid', heap', j) = Row(grid, heap, j)
              /\ \A j \in h_idx..(H - 2) :
                   Row(grid', heap', j) = Row(grid, heap, j + 1)
              /\ Row(grid', heap', H - 1) = zero_list
              /\ row_deletions' = row_deletions + 1
     /\ i' = i => row_deletions' >= row_deletions]_vars

\* the reference definition of a collision, for a shape with the occupied
\* boxes (r, c) placed at x_offset on the current grid: some occupied box
\* of the shape is below the floor or on an occupied grid cell
RefCollides(boxes, y) ==
  \E rc \in boxes :
    \/ y + rc[1] < 0
    \/ Cell(grid, heap, y + rc[1], x_offset + rc[2]) # "."

\* C16: the collision test is the reference definition and is pure.  For
\* the catalog shape and in-bounds offset of every drop search, and every
\* vertical offset from -h to H - h, it returns true exactly when some
\* occupied box of the shape is below the floor or on an occupied cell,
\* and false otherwise; and the search, which is made of collision tests
\* only, changes no grid cell and not the rows-cleared counter.
C16_CollisionIsReference ==
  [][pc = "drop" =>
       /\ tetris' = tetris
       /\ InBounds =>
            LET boxes == ShapeBoxes
                shape == shape_array
            IN  \A y \in (0 - Len(shape))..(H - Len(shape)) :
                  detected_collision(grid, heap, shape, x_offset, y)
                    = IF RefCollides(boxes, y) THEN "True" ELSE "False"]_vars

\* a drop search has ended on a partial overlap: one row below the offset
\* it resolved the shape is above the floor and collides, though its lowest
\* row lies on empty cells
C16_Witness ==
  /\ pc = "write"
  /\ InBounds
  /\ y_offset >= 1
  /\ detected_collision(grid, heap, shape_array, x_offset, y_offset - 1) = "True"
  /\ \A c \in 0..(SIZE_MAP[shape_name].w - 1) :
       Cell(grid, heap, y_offset - 1, x_offset + c) = "."

\* the legal content of a cell: the empty marker or a shape tag
LegalCells == {".", "q", "z", "s", "t", "i", "l", "j"}

\* C17: in every state the grid has exactly H rows, every row has exactly W
\* cells and every cell holds the empty marker or one of the tags q, z, s,
\* t, i, l, j; and the grid a line starts on has every cell empty.
C17_GridShape ==
  /\ grid \in [0..(H - 1) -> DOMAIN heap]
  /\ heap \in [DOMAIN heap -> [1..W -> LegalCells]]
  /\ \A y \in 0..(H - 1) : Row(InitialGrid, InitialHeap, y) = [x \in 1..W |-> "."]

\* the cascade is between two clear steps: one full row has been deleted
\* from a grid that holds written shapes, and the floor row is full again
C17_Witness ==
  /\ pc = "clear"
  /\ row_deletions = 1
  /\ IsFullRow(Row(grid, heap, 0))

\* the rows the shape being placed covers at the offset resolved for it
ShapeRows == y_offset..(y_offset + SIZE_MAP[shape_name].h - 1)

\* C18: rows do not share storage: the write of an in-bounds shape changes
\* the content of the rows the shape covers only; every other row index of
\* the grid keeps its content, however many rows were cleared before.
C18_WriteChangesOwnRowsOnly ==
  [][(pc = "write" /\ InBounds) =>
       \A y \in (0..(H - 1)) \ ShapeRows :
         Row(grid', heap', y) = Row(grid, heap, y)]_vars

\* the number of occupied cells of rows lo..hi of the grid
RECURSIVE OccupiedIn(_, _)
OccupiedIn(lo, hi) ==
  IF lo > hi THEN 0
  ELSE IF lo = hi
    THEN Cardinality({x \in 1..W : Row(grid, heap, lo)[x] # "."})
    ELSE LET mid == (lo + hi) \div 2
         IN  OccupiedIn(lo, mid) + OccupiedIn(mid + 1, hi)

\* the number of occupied cells of rows 0..y of the grid
OccupiedUpTo(y) == OccupiedIn(0, y)

\* the number of occupied boxes of a catalog shape
ShapeCells(name) ==
  Cardinality({rc \in (1..SIZE_MAP[name].h) \X (1..SIZE_MAP[name].w) :
                 SIZE_MAP[name].array[rc[1]][rc[2]] # "."})

\* the number of pairs of the current line whose placement has completed
PlacedPairs == Len(parse_line_to_array(line)) - Len(input_line_array)

\* the occupied boxes of the shapes of the first n pairs of the line
RECURSIVE CellsPlaced(_)
CellsPlaced(n) ==
  IF n = 0 THEN 0
  ELSE ShapeCells(parse_line_to_array(line)[n][1]) + CellsPlaced(n - 1)

\* C19: cell conservation.  Every completed placement adds the occupied
\* cells of its shape and takes away W cells for every row its cascade
\* cleared; a line starts on an empty grid with a zero counter, so after
\* every completed placement the grid holds the cells of the shapes placed
\* so far less W cells for every row cleared so far.
C19_CellConservation ==
  PlacementDone =>
    OccupiedUpTo(H - 1) = CellsPlaced(PlacedPairs) - W * row_deletions

====
